---- MODULE Spec2Model ----
(***************************************************************************)
(* Model of server/utils/fileUtils.js of lakwli/photosharing: directory    *)
(* provisioning, image processing (resize to WebP, delete the original,    *)
(* clean up on failure) and the file-deletion helpers, over a small file   *)
(* system.  dirs and files are the file system, call the running call of   *)
(* each request slot, last the record of the call that ended in the step   *)
(* just taken (Idle when that step ended none), so that what holds when a  *)
(* call ends is a predicate of the state.                                  *)
(* Requests run on one JavaScript thread: synchronous code                 *)
(* between two awaits is one atomic step; an awaited filesystem or image   *)
(* library operation takes effect in a step of its own, so calls of        *)
(* different requests interleave at the awaits.  The code that follows an  *)
(* await runs in the step of the awaited operation when it neither reads   *)
(* nor writes the file system before the next await or the end of the      *)
(* call; after toFile and after stat it is a step of its own.  Every       *)
(* operation that can throw may also be refused by the environment         *)
(* (EACCES, EIO, ...): the fault of each step.                             *)
(***************************************************************************)
EXTENDS Integers, Sequences, FiniteSets, TLC

VARIABLES dirs, files, call, last, started

vars == <<dirs, files, call, last, started>>

(* ---------------------------------------------------------------- bounds *)

\* Total number of calls made in one behaviour.
MaxCalls == 2

\* Longest list of paths handed to ensureDirectoriesExist or deleteFiles.
MaxPaths == 2

\* The request slots whose calls may interleave.
Procs == {1, 2}

(* ----------------------------------------------------------------- paths *)

\* A path is the sequence of its components; the empty sequence stands both
\* for the root (which always exists) and for a missing (falsy) argument.
Root == <<>>
NoPath == <<>>
U == <<"user_1">>
M == <<"user_1", "memory_1">>

DirPaths == {U, M}

\* path.dirname
Dirname(path) == SubSeq(path, 1, Len(path) - 1)

\* path.join(dir, name)
Join(dir, name) == Append(dir, name)

\* `${baseName}.webp` joined to targetDir
OptimizedPath(targetDir, baseName) == Join(targetDir, baseName \o ".webp")

BaseNames == {"x"}

Originals == {Join(U, "a.jpg")}
Outputs == {OptimizedPath(d, b) : d \in DirPaths, b \in BaseNames}
FilePaths == Originals \cup Outputs

\* What a path holds: nothing, an uploaded original, or a WebP output that
\* is fully or partially written, with the request slot whose call wrote it
\* (0: it was there before any call).
Absent == [st |-> "absent", by |-> 0]
Orig == [st |-> "orig", by |-> 0]
Full(by) == [st |-> "full", by |-> by]
Partial(by) == [st |-> "partial", by |-> by]

\* The directory and every ancestor of it (what mkdir -p creates).
Ancestors(d) == {SubSeq(d, 1, n) : n \in 1..Len(d)}

\* fs.existsSync: true for a directory or a file, never throws.
ExistsIn(path, ds, fl) ==
    \/ path \in ds
    \/ path \in FilePaths /\ fl[path].st # "absent"

ExistsSync(path) == ExistsIn(path, dirs, files)

\* fs.promises.readdir: the names of the files and sub-directories in d.
EntriesIn(d, ds, fl) ==
    {f \in FilePaths : Dirname(f) = d /\ fl[f].st # "absent"}
        \cup {s \in ds : Dirname(s) = d}

Entries(d) == EntriesIn(d, dirs, files)

\* fs.mkdirSync(dir, {recursive}) succeeds unless, in the non-recursive
\* case, the parent is missing (ENOENT) or the directory is there (EEXIST),
\* or the environment refuses (fault: EACCES, EIO, ...).
MkdirOk(d, recursive, ds, fault) ==
    /\ ~fault
    /\ recursive \/ Dirname(d) = Root \/ Dirname(d) \in ds
    /\ recursive \/ d \notin ds

MkdirSync(d, recursive, ds) ==
    IF recursive THEN ds \cup Ancestors(d) ELSE ds \cup {d}

\* fs.unlink / fs.unlinkSync succeeds when the file is there and the
\* environment does not refuse.
UnlinkOk(path, fl, fault) ==
    /\ ~fault
    /\ path \in FilePaths
    /\ fl[path].st # "absent"

Unlink(path, fl) == [fl EXCEPT ![path] = Absent]

\* A removal that does not mind what the directory holds.
RmdirForce(d, ds, fl, fault) == ~fault /\ d \in ds

\* fs.promises.rmdir (not recursive): ENOENT when the directory is missing,
\* ENOTEMPTY when it holds an entry.
RmdirOk(d, ds, fl, fault) ==
    /\ ~fault
    /\ d \in ds
    /\ EntriesIn(d, ds, fl) = {}

Rmdir(d, ds) == ds \ {d}

(* ------------------------------------------------------------- the calls *)

Idle == [op |-> "idle", pc |-> "idle"]

\* The fields every call carries: err is the first step that failed, out
\* how the call ended, thrown the error that reached the caller, emptied the
\* directory whose last entry the call deleted.
Base(op, pc) ==
    [op |-> op, pc |-> pc, err |-> "none", out |-> "none",
     thrown |-> "none", emptied |-> NoPath]

Returned(c) == [c EXCEPT !.pc = "done", !.out = "returned"]

Threw(c, e) ==
    [c EXCEPT !.pc = "done", !.out = "threw",
              !.err = IF c.err = "none" THEN e ELSE c.err,
              !.thrown = e]

\* A new request takes the first free slot.
CanCall(p) ==
    /\ call[p].op = "idle"
    /\ \A q \in Procs : q < p => call[q].op # "idle"
    /\ started < MaxCalls

\* The call of slot p goes on as c, or ends as c.
Goto(p, c) ==
    IF c.pc = "done"
    THEN call' = [call EXCEPT ![p] = Idle] /\ last' = c
    ELSE call' = [call EXCEPT ![p] = c] /\ last' = Idle

\* The directory a call has emptied once it has deleted path.
EmptiedBy(c, path, ds, fl) ==
    IF EntriesIn(Dirname(path), ds, fl) = {} THEN Dirname(path) ELSE c.emptied

\* The lists of at most MaxPaths elements of S.
Lists(S) == UNION {[1..n -> S] : n \in 0..MaxPaths}

\* The arguments the calls are made with.
DirLists == Lists(DirPaths)
FileLists == Lists(Originals \cup {NoPath})
FileArgs == FilePaths \cup {NoPath}
ImageArgs ==
    {<<i, d, "x">> : i \in Originals, d \in DirPaths \cup {NoPath}}
        \cup {<<i, M, "">> : i \in Originals}

Init ==
    /\ dirs \in {{}, {U}, {U, M}}
    /\ files \in [FilePaths -> {Absent, Orig, Full(0)}]
    /\ \A f \in FilePaths :
          /\ files[f] # Absent => Dirname(f) \in dirs
          /\ files[f] = Orig => f \in Originals
          /\ files[f] = Full(0) => f \in Outputs
    /\ call = [p \in Procs |-> Idle]
    /\ last = Idle
    /\ started = 0

(* ------------------------------------------------- directory provisioning *)

\* Whether the call that ended last was the same provisioning call, and
\* whether it failed for a path.
Previous(op, arg) ==
    IF last.op = op /\ last.arg = arg
    THEN IF last.out = "threw" \/ last.failed THEN "failed" ELSE "ok"
    ELSE "other"

\* ensureDir: create the directory (and its parents) unless it exists; a
\* failing mkdirSync throws.  Gives whether it returned and the directories
\* it leaves.
EnsureDirResult(dirPath, ds, fl, fault) ==
    IF ExistsIn(dirPath, ds, fl)
    THEN [ok |-> TRUE, dirs |-> ds]
    ELSE IF MkdirOk(dirPath, TRUE, ds, fault)
         THEN [ok |-> TRUE, dirs |-> MkdirSync(dirPath, TRUE, ds)]
         ELSE [ok |-> FALSE, dirs |-> ds]

ensureDir(p, dirPath) ==
    /\ CanCall(p)
    /\ \E fault \in BOOLEAN :
          LET r == EnsureDirResult(dirPath, dirs, files, fault)
              c == Base("ensureDir", "done") @@
                   [arg |-> dirPath, prev |-> Previous("ensureDir", dirPath),
                    failed |-> ~r.ok, changed |-> r.dirs # dirs]
          IN  /\ dirs' = r.dirs
              /\ Goto(p, IF r.ok THEN Returned(c) ELSE Threw(c, "mkdir"))
    /\ started' = started + 1
    /\ UNCHANGED files

NoStats == [created |-> 0, existing |-> 0, failed |-> 0]

CountCreated(stats) == [stats EXCEPT !.created = @ + 1]

\* An existing directory counted as created.
CountExistingAsCreated(stats) == [stats EXCEPT !.created = @ + 1]

CountExisting(stats) == [stats EXCEPT !.existing = @ + 1]

\* A failure that is logged and not counted.
CountFailedMissed(stats) == stats

CountFailed(stats) == [stats EXCEPT !.failed = @ + 1]

\* The loop of ensureDirectoriesExist from the i-th path on: each path is
\* tried in its own try/catch, so a failure is counted and the loop goes on.
\* Gives every outcome the loop can have: where mkdirSync is called it may
\* succeed or be refused.
RECURSIVE EnsureFrom(_, _, _, _, _, _)
EnsureFrom(i, directories, recursive, ds, fl, stats) ==
    IF i > Len(directories)
    THEN {[dirs |-> ds, stats |-> stats]}
    ELSE LET dir == directories[i]
         IN  IF ~ExistsIn(dir, ds, fl)
             THEN UNION {
                    IF MkdirOk(dir, recursive, ds, fault)
                    THEN EnsureFrom(i + 1, directories, recursive,
                                    MkdirSync(dir, recursive, ds), fl,
                                    CountCreated(stats))
                    ELSE EnsureFrom(i + 1, directories, recursive,
                                    ds, fl, CountFailed(stats))
                    : fault \in BOOLEAN}
             ELSE EnsureFrom(i + 1, directories, recursive,
                             ds, fl, CountExisting(stats))

ensureDirectoriesExist(p, directories, recursive) ==
    /\ CanCall(p)
    /\ \E r \in EnsureFrom(1, directories, recursive, dirs, files, NoStats) :
          LET arg == <<directories, recursive>>
              c == Base("ensureDirectoriesExist", "done") @@
                   [arg |-> arg,
                    prev |-> Previous("ensureDirectoriesExist", arg),
                    stats |-> r.stats, failed |-> r.stats.failed > 0,
                    changed |-> r.dirs # dirs]
          IN  /\ dirs' = r.dirs
              /\ Goto(p, Returned(c))
    /\ started' = started + 1
    /\ UNCHANGED files

(* --------------------------------------------------------- processImage *)

\* Whose output the catch block deletes: the one this call's toFile wrote
\* (wholly or in part), or one that was there before or that another call
\* wrote.  (A slot's earlier call is another call: touched is of this call.)
Owner(p, c, fl) ==
    IF c.touched /\ fl[c.optimizedPath].by = p THEN "own" ELSE "foreign"

\* The catch block of processImage after step e failed: delete whatever is
\* at the output path, then rethrow e.  An unlinkSync that fails here throws
\* in place of e and leaves the file.
Cleanup(p, c, e, fl) ==
    \E fault \in BOOLEAN :
        IF ExistsIn(c.optimizedPath, dirs, fl)
        THEN IF UnlinkOk(c.optimizedPath, fl, fault)
             THEN LET left == Unlink(c.optimizedPath, fl)
                  IN  /\ files' = left
                      /\ Goto(p, Threw([c EXCEPT
                            !.cleaned = Owner(p, c, fl),
                            !.emptied = EmptiedBy(c, c.optimizedPath, dirs, left)],
                            e))
             ELSE /\ files' = fl
                  /\ Goto(p, Threw([c EXCEPT !.err = e], "cleanup"))
        ELSE /\ ~fault
             /\ files' = fl
             /\ Goto(p, Threw(c, e))

\* The call up to its first await: the argument check, ensureDir(targetDir)
\* (outside the try block), then the metadata read is started.
processImage(p, inputPath, targetDir, baseName) ==
    /\ CanCall(p)
    /\ started' = started + 1
    /\ UNCHANGED files
    /\ LET c == Base("processImage", "metadata") @@
                [inputPath |-> inputPath,
                 optimizedPath |-> OptimizedPath(targetDir, baseName),
                 hadInput |-> ExistsSync(inputPath), wrote |-> FALSE,
                 touched |-> FALSE, unlinkedOriginal |-> FALSE,
                 cleaned |-> "none"]
       IN  IF targetDir = NoPath \/ baseName = ""
           THEN /\ Goto(p, Threw(c, "arguments"))
                /\ UNCHANGED dirs
           ELSE \E fault \in BOOLEAN :
                   LET r == EnsureDirResult(targetDir, dirs, files, fault)
                   IN  /\ dirs' = r.dirs
                       /\ Goto(p, IF r.ok THEN c ELSE Threw(c, "mkdir"))

\* await sharp(originalPath).metadata(): fails when the file is missing or
\* is no image the library reads.  The read changes nothing, and one that
\* can fail can still fail later (no call creates an original), so a
\* failure is placed in the step in which the catch block runs.
PI_Metadata(p) ==
    LET c == call[p]
    IN  /\ c.op = "processImage" /\ c.pc = "metadata"
        /\ UNCHANGED <<dirs, started>>
        /\ \E ok \in BOOLEAN :
              /\ ok => ExistsSync(c.inputPath)
              /\ IF ok
                 THEN /\ Goto(p, [c EXCEPT !.pc = "toFile"])
                      /\ UNCHANGED files
                 ELSE Cleanup(p, c, "metadata", files)

\* A rejected toFile that is not noticed.
AfterToFileUnchecked(result) == "written"

\* Where the call goes on once toFile has settled.
AfterToFile(result) == IF result = "ok" THEN "written" ELSE "toFileFailed"

\* await sharp(originalPath).resize(...).webp(...).toFile(optimizedPath):
\* writes the whole output, or fails having written nothing or part of it.
PI_ToFile(p) ==
    LET c == call[p]
        can == ExistsSync(c.inputPath) /\ Dirname(c.optimizedPath) \in dirs
    IN  /\ c.op = "processImage" /\ c.pc = "toFile"
        /\ UNCHANGED <<dirs, started>>
        /\ \E result \in {"ok", "partial", "nothing"} :
              /\ result # "nothing" => can
              /\ files' = CASE result = "ok" ->
                                 [files EXCEPT ![c.optimizedPath] = Full(p)]
                            [] result = "partial" ->
                                 [files EXCEPT ![c.optimizedPath] = Partial(p)]
                            [] OTHER -> files
              /\ Goto(p, [c EXCEPT !.pc = AfterToFile(result),
                                   !.wrote = (result = "ok"),
                                   !.touched = (result # "nothing")])

\* The original is kept.
DeleteOriginalNever(inputPath) == FALSE

\* Whether the original is deleted once the output is written.
DeleteOriginal(inputPath) == ExistsSync(inputPath)

\* After toFile: delete the original if it is still there, then start the
\* stat of the output.
PI_Written(p) ==
    LET c == call[p]
    IN  /\ c.op = "processImage" /\ c.pc = "written"
        /\ UNCHANGED <<dirs, started>>
        /\ IF DeleteOriginal(c.inputPath)
           THEN \E fault \in BOOLEAN :
                   IF UnlinkOk(c.inputPath, files, fault)
                   THEN LET fl == Unlink(c.inputPath, files)
                        IN  /\ files' = fl
                            /\ Goto(p, [c EXCEPT
                                  !.pc = "stat",
                                  !.unlinkedOriginal = TRUE,
                                  !.emptied = EmptiedBy(c, c.inputPath, dirs, fl)])
                   ELSE Cleanup(p, c, "unlinkOriginal", files)
           ELSE /\ files' = files
                /\ Goto(p, [c EXCEPT !.pc = "stat"])

\* toFile rejected: the catch block.
PI_ToFileFailed(p) ==
    LET c == call[p]
    IN  /\ c.op = "processImage" /\ c.pc = "toFileFailed"
        /\ UNCHANGED <<dirs, started>>
        /\ Cleanup(p, c, "toFile", files)

\* await fs.promises.stat(optimizedPath)
PI_Stat(p) ==
    LET c == call[p]
    IN  /\ c.op = "processImage" /\ c.pc = "stat"
        /\ UNCHANGED <<dirs, files, started>>
        /\ \E fault \in BOOLEAN :
              IF ExistsSync(c.optimizedPath) /\ ~fault
              THEN Goto(p, [c EXCEPT !.pc = "statOk"])
              ELSE Goto(p, [c EXCEPT !.pc = "statFailed"])

\* stat resolved: the result record is returned.
PI_Return(p) ==
    LET c == call[p]
    IN  /\ c.op = "processImage" /\ c.pc = "statOk"
        /\ UNCHANGED <<dirs, files, started>>
        /\ Goto(p, Returned(c))

\* stat rejected: the catch block.
PI_StatFailed(p) ==
    LET c == call[p]
    IN  /\ c.op = "processImage" /\ c.pc = "statFailed"
        /\ UNCHANGED <<dirs, started>>
        /\ Cleanup(p, c, "stat", files)

(* ------------------------------------------------------- deletion helpers *)

\* `file && typeof file === "string"`
ValidPath(path) == path # NoPath

\* The synchronous part of the loop of deleteFiles: paths that are invalid
\* or do not exist are passed over without an await.
RECURSIVE SkipMissing(_, _, _)
SkipMissing(list, ds, fl) ==
    IF list = <<>> THEN list
    ELSE IF ValidPath(Head(list)) /\ ExistsIn(Head(list), ds, fl)
         THEN list
         ELSE SkipMissing(Tail(list), ds, fl)

\* The loop goes on with the paths in rest: it ends when none is left to
\* unlink, else the unlink of the first is awaited.
DeleteFilesLoop(c, rest) ==
    IF rest = <<>> THEN Returned(c)
    ELSE [c EXCEPT !.pc = "unlink", !.list = rest]

deleteFiles(p, list) ==
    /\ CanCall(p)
    /\ started' = started + 1
    /\ UNCHANGED <<dirs, files>>
    /\ Goto(p, DeleteFilesLoop(Base("deleteFiles", "loop") @@ [list |-> list],
                               SkipMissing(list, dirs, files)))

\* The error is thrown on, as deleteFile does.
RethrowUnlinkError(c) == Threw(c, "unlink")

\* What deleteFiles does with an unlink that failed: it logs the error and
\* goes on with the next path.
SwallowUnlinkError(c) == [c EXCEPT !.err = "unlink", !.pc = "resume"]

\* await fs.promises.unlink(file) of deleteFiles
DFS_Unlink(p) ==
    LET c == call[p]
        f == Head(c.list)
    IN  /\ c.op = "deleteFiles" /\ c.pc = "unlink"
        /\ UNCHANGED <<dirs, started>>
        /\ \E fault \in BOOLEAN :
              IF UnlinkOk(f, files, fault)
              THEN LET fl == Unlink(f, files)
                   IN  /\ files' = fl
                       /\ Goto(p, [c EXCEPT !.pc = "resume",
                                     !.emptied = EmptiedBy(c, f, dirs, fl)])
              ELSE /\ files' = files
                   /\ Goto(p, SwallowUnlinkError(c))

\* The loop of deleteFiles after an unlink has settled.
DFS_Resume(p) ==
    LET c == call[p]
    IN  /\ c.op = "deleteFiles" /\ c.pc = "resume"
        /\ UNCHANGED <<dirs, files, started>>
        /\ Goto(p, DeleteFilesLoop(c, SkipMissing(Tail(c.list), dirs, files)))

deleteFile(p, filePath) ==
    /\ CanCall(p)
    /\ started' = started + 1
    /\ UNCHANGED <<dirs, files>>
    /\ LET c == Base("deleteFile", "unlink") @@ [filePath |-> filePath]
       IN  IF ValidPath(filePath) /\ ExistsSync(filePath)
           THEN Goto(p, c)
           ELSE Goto(p, Returned(c))

\* await fs.promises.unlink(filePath) of deleteFile
DF_Unlink(p) ==
    LET c == call[p]
    IN  /\ c.op = "deleteFile" /\ c.pc = "unlink"
        /\ UNCHANGED <<dirs, started>>
        /\ \E fault \in BOOLEAN :
              IF UnlinkOk(c.filePath, files, fault)
              THEN LET fl == Unlink(c.filePath, files)
                   IN  /\ files' = fl
                       /\ Goto(p, Returned([c EXCEPT !.emptied =
                                    EmptiedBy(c, c.filePath, dirs, fl)]))
              ELSE /\ files' = files
                   /\ Goto(p, Threw(c, "unlink"))

deleteFileAndEmptyParent(p, filePath) ==
    /\ CanCall(p)
    /\ started' = started + 1
    /\ UNCHANGED <<dirs, files>>
    /\ LET c == Base("deleteFileAndEmptyParent", "unlink") @@
                [filePath |-> filePath]
       IN  IF ValidPath(filePath) /\ ExistsSync(filePath)
           THEN Goto(p, c)
           ELSE Goto(p, Returned(c))

\* await fs.promises.unlink(filePath) of deleteFileAndEmptyParent
DFP_Unlink(p) ==
    LET c == call[p]
    IN  /\ c.op = "deleteFileAndEmptyParent" /\ c.pc = "unlink"
        /\ UNCHANGED <<dirs, started>>
        /\ \E fault \in BOOLEAN :
              IF UnlinkOk(c.filePath, files, fault)
              THEN LET fl == Unlink(c.filePath, files)
                   IN  /\ files' = fl
                       /\ Goto(p, [c EXCEPT !.pc = "readdir",
                                     !.emptied =
                                        EmptiedBy(c, c.filePath, dirs, fl)])
              ELSE /\ files' = files
                   /\ Goto(p, Threw(c, "unlink"))

\* The parent directory is left.
RemoveParentNever(remainingFiles) == FALSE

\* Whether the parent directory is removed, given its listing.
RemoveParent(remainingFiles) == remainingFiles = {}

\* await fs.promises.readdir(parentDir), and the test of what it lists
DFP_Readdir(p) ==
    LET c == call[p]
        parentDir == Dirname(c.filePath)
    IN  /\ c.op = "deleteFileAndEmptyParent" /\ c.pc = "readdir"
        /\ UNCHANGED <<dirs, files, started>>
        /\ \E fault \in BOOLEAN :
              IF parentDir \in dirs /\ ~fault
              THEN IF RemoveParent(Entries(parentDir))
                   THEN Goto(p, [c EXCEPT !.pc = "rmdir"])
                   ELSE Goto(p, Returned(c))
              ELSE Goto(p, Threw(c, "readdir"))

\* await fs.promises.rmdir(parentDir)
DFP_Rmdir(p) ==
    LET c == call[p]
        parentDir == Dirname(c.filePath)
    IN  /\ c.op = "deleteFileAndEmptyParent" /\ c.pc = "rmdir"
        /\ UNCHANGED <<files, started>>
        /\ \E fault \in BOOLEAN :
              IF RmdirOk(parentDir, dirs, files, fault)
              THEN /\ dirs' = Rmdir(parentDir, dirs)
                   /\ Goto(p, Returned(c))
              ELSE /\ dirs' = dirs
                   /\ Goto(p, Threw(c, "rmdir"))

Step(p) ==
    \/ \E d \in DirPaths : ensureDir(p, d)
    \/ \E ds \in DirLists, r \in BOOLEAN :
          ensureDirectoriesExist(p, ds, r)
    \/ \E a \in ImageArgs : processImage(p, a[1], a[2], a[3])
    \/ PI_Metadata(p)
    \/ PI_ToFile(p)
    \/ PI_Written(p)
    \/ PI_ToFileFailed(p)
    \/ PI_Stat(p)
    \/ PI_Return(p)
    \/ PI_StatFailed(p)
    \/ \E l \in FileLists : deleteFiles(p, l)
    \/ DFS_Unlink(p)
    \/ DFS_Resume(p)
    \/ \E f \in FileArgs : deleteFile(p, f)
    \/ DF_Unlink(p)
    \/ \E f \in FileArgs : deleteFileAndEmptyParent(p, f)
    \/ DFP_Unlink(p)
    \/ DFP_Readdir(p)
    \/ DFP_Rmdir(p)

\* Requests interleave at their awaits.
Next == \E p \in Procs : Step(p)

Spec == Init /\ [][Next]_vars

\* One request at a time: with the first slot alone, every call runs to its
\* end before the next begins.
FirstSlot == CHOOSE p \in Procs : \A q \in Procs : p <= q

NextSeq == Step(FirstSlot)

SpecSeq == Init /\ [][NextSeq]_vars

(* ---------------------------------------------------------------- claims *)

DeleteOps == {"deleteFiles", "deleteFile", "deleteFileAndEmptyParent"}

\* C1: when processImage returns and its input existed when it was called,
\* the original is gone and the output file exists (calls run one at a
\* time).
SuccessRemovesOriginalKeepsOutput ==
    (last.op = "processImage" /\ last.out = "returned" /\ last.hadInput)
        => ~ExistsSync(last.inputPath) /\ ExistsSync(last.optimizedPath)

ImageReturned ==
    last.op = "processImage" /\ last.out = "returned" /\ last.hadInput

\* C2: when processImage throws because the metadata read, toFile, the
\* deletion of the original or stat failed, nothing is at the output path
\* and the error thrown is that failure.
FailureLeavesNoOutput ==
    (/\ last.op = "processImage"
     /\ last.out = "threw"
     /\ last.err \in {"metadata", "toFile", "unlinkOriginal", "stat"})
        => ~ExistsSync(last.optimizedPath) /\ last.thrown = last.err

\* C3: no step removes a directory that holds an entry; a directory is
\* removed only by deleteFileAndEmptyParent, and only the parent of its
\* target; and no step of deleteFileAndEmptyParent deletes a file other
\* than its target -- in every interleaving.
ParentRemovedOnlyWhenEmpty ==
    [][/\ \A d \in dirs \ dirs' :
             /\ Entries(d) = {}
             /\ \E p \in Procs :
                   /\ call[p].op = "deleteFileAndEmptyParent"
                   /\ call'[p] # call[p]
                   /\ Dirname(call[p].filePath) = d
       /\ \A p \in Procs :
             (call[p].op = "deleteFileAndEmptyParent" /\ call'[p] # call[p])
                 => \A f \in FilePaths :
                       (files[f] # Absent /\ files'[f] = Absent)
                           => f = call[p].filePath]_vars

\* The removal of the parent was refused because a file had been written
\* into it after it was listed empty.
RemovalRaced ==
    /\ last.op = "deleteFileAndEmptyParent"
    /\ last.thrown = "rmdir"
    /\ Dirname(last.filePath) \in dirs
    /\ \E f \in FilePaths :
          Dirname(f) = Dirname(last.filePath) /\ files[f] # Absent

AllExisting(c) ==
    [created |-> 0, existing |-> Len(c.arg[1]), failed |-> 0]

\* C4 as stated: a provisioning call that follows the same call reports
\* every path as existing, raises no error and changes nothing.
SecondProvisioningReportsExisting ==
    /\ (last.op = "ensureDirectoriesExist" /\ last.prev # "other")
          => last.stats = AllExisting(last) /\ ~last.changed
    /\ (last.op = "ensureDir" /\ last.prev # "other")
          => last.out = "returned" /\ ~last.changed

\* C4, amended: it does so when the first call failed for no path.
SecondProvisioningAfterSuccess ==
    /\ (last.op = "ensureDirectoriesExist" /\ last.prev = "ok")
          => last.stats = AllExisting(last) /\ ~last.changed
    /\ (last.op = "ensureDir" /\ last.prev = "ok")
          => last.out = "returned" /\ ~last.changed

ProvisionedTwice ==
    /\ last.op = "ensureDirectoriesExist"
    /\ last.prev = "ok"
    /\ Len(last.arg[1]) > 0

\* C5 as stated: when a deletion helper that deleted the last entry of a
\* directory ends, or processImage that did so by deleting the original,
\* the directory is gone.
DirectoryGoneWithLastFile ==
    (/\ \/ last.op \in DeleteOps
        \/ last.op = "processImage" /\ last.emptied = Dirname(last.inputPath)
     /\ last.emptied # NoPath)
        => last.emptied \notin dirs

\* C5, amended: that holds of deleteFileAndEmptyParent when it returns;
\* deleteFile, deleteFiles and processImage leave the directory.
OnlyEmptyParentPrunes ==
    /\ (/\ last.op = "deleteFileAndEmptyParent"
        /\ last.out = "returned"
        /\ last.emptied # NoPath)
          => last.emptied \notin dirs
    /\ (/\ last.op \in {"deleteFile", "deleteFiles", "processImage"}
        /\ last.emptied # NoPath)
          => last.emptied \in dirs

ParentPruned ==
    /\ last.op = "deleteFileAndEmptyParent"
    /\ last.out = "returned"
    /\ last.emptied # NoPath

\* C6 as stated: a call of processImage or of a deletion helper in which a
\* step failed ends with an error thrown.
EveryFailureIsRethrown ==
    (last.op \in {"processImage"} \cup DeleteOps /\ last.err # "none")
        => last.out = "threw"

\* C6, amended: so do processImage, deleteFile and
\* deleteFileAndEmptyParent; deleteFiles always returns.
FailureRethrownButByDeleteFiles ==
    /\ (/\ last.op \in {"processImage", "deleteFile",
                        "deleteFileAndEmptyParent"}
        /\ last.err # "none")
          => last.out = "threw"
    /\ last.op = "deleteFiles" => last.out = "returned"

ListingFailureRethrown ==
    /\ last.op = "deleteFileAndEmptyParent"
    /\ last.err = "readdir"
    /\ last.out = "threw"

\* C7: a call of processImage that has deleted the original has had its
\* toFile write the whole output before.
OriginalDeletedAfterOutputWritten ==
    /\ \A p \in Procs :
          (call[p].op = "processImage" /\ call[p].unlinkedOriginal)
              => call[p].wrote
    /\ (last.op = "processImage" /\ last.unlinkedOriginal) => last.wrote

OriginalDeleted ==
    \E p \in Procs :
        /\ call[p].op = "processImage"
        /\ call[p].pc = "stat"
        /\ call[p].unlinkedOriginal

\* C8: ensureDirectoriesExist always returns, and created + existing +
\* failed is the number of paths it was given.
ProvisioningCountsEveryPath ==
    last.op = "ensureDirectoriesExist"
        => /\ last.out = "returned"
           /\ last.stats.created + last.stats.existing + last.stats.failed
                 = Len(last.arg[1])

FailedAndWentOn ==
    /\ last.op = "ensureDirectoriesExist"
    /\ last.stats.failed > 0
    /\ last.stats.created > 0

\* C9: when a call of processImage whose input existed ends, the original
\* or the output exists, and the original if the call threw.
ImageNeverLost ==
    (last.op = "processImage" /\ last.hadInput)
        => /\ ExistsSync(last.inputPath) \/ ExistsSync(last.optimizedPath)
           /\ last.out = "threw" => ExistsSync(last.inputPath)

\* C10: a call of processImage that throws has deleted no output but one
\* its own toFile wrote.
CleanupRemovesOnlyOwnOutput ==
    (last.op = "processImage" /\ last.out = "threw")
        => last.cleaned # "foreign"

====
